---- MODULE Spec2Model ----
(***************************************************************************)
(* Cookie loading of gemini_webapi: load_browser_cookies                   *)
(* (src/gemini_webapi/utils/load_browser_cookies.py) as a state machine,   *)
(* one action per step of the function, with the browser_cookie3 readers   *)
(* as the environment: a reader, once invoked, yields a finite sequence of *)
(* cookies and then either ends normally or raises.                        *)
(*                                                                         *)
(* GeminiClient's constructor, whose code is not among the sources, is     *)
(* modelled from its tests (tests/test_client_features.py) with the loader *)
(* replaced by a stand-in, as the tests do; it has a specification of its  *)
(* own, ClientSpec.                                                        *)
(*                                                                         *)
(* Strings whose letter case the code inspects (browser names) are         *)
(* sequences of one-character strings, so that str.lower() is a real       *)
(* conversion.  An optional value is a sequence of length 0 (None) or 1.   *)
(***************************************************************************)
EXTENDS Naturals, Sequences, FiniteSets

(* ------------------------------ bounds -------------------------------- *)

\* Events (cookies yielded plus readers that raise) the environment may
\* produce during the calls of load_browser_cookies in view: the call in
\* progress and, where a caller kept its result, the call before it.
MaxEvents == 2

(* ------------------------------ strings ------------------------------- *)

firefox == <<"f", "i", "r", "e", "f", "o", "x">>
chrome == <<"c", "h", "r", "o", "m", "e">>
chromium == <<"c", "h", "r", "o", "m", "i", "u", "m">>
opera == <<"o", "p", "e", "r", "a">>
opera_gx == <<"o", "p", "e", "r", "a", "_", "g", "x">>
brave == <<"b", "r", "a", "v", "e">>
edge == <<"e", "d", "g", "e">>
vivaldi == <<"v", "i", "v", "a", "l", "d", "i">>
safari == <<"s", "a", "f", "a", "r", "i">>
librewolf == <<"l", "i", "b", "r", "e", "w", "o", "l", "f">>

\* Inputs that are not keys of BROWSER_MAPPING as written.
Chrome_cap == <<"C", "h", "r", "o", "m", "e">>
FIREFOX_up == <<"F", "I", "R", "E", "F", "O", "X">>
Opera_GX_mixed == <<"O", "p", "e", "r", "a", "_", "G", "X">>
netscape == <<"n", "e", "t", "s", "c", "a", "p", "e">>
Netscape_cap == <<"N", "e", "t", "s", "c", "a", "p", "e">>
EmptyStr == <<>>

\* Values of the environment variable GEMINI_AUTO_LOAD_COOKIES.
s_true == <<"t", "r", "u", "e">>
s_True == <<"T", "r", "u", "e">>
s_TRUE == <<"T", "R", "U", "E">>
s_false == <<"f", "a", "l", "s", "e">>
s_not_a_boolean == <<"n", "o", "t", "_", "a", "_", "b", "o", "o", "l", "e", "a", "n">>
s_1 == <<"1">>

UpperCase ==
    <<"A", "B", "C", "D", "E", "F", "G", "H", "I", "J", "K", "L", "M",
      "N", "O", "P", "Q", "R", "S", "T", "U", "V", "W", "X", "Y", "Z">>
LowerCase ==
    <<"a", "b", "c", "d", "e", "f", "g", "h", "i", "j", "k", "l", "m",
      "n", "o", "p", "q", "r", "s", "t", "u", "v", "w", "x", "y", "z">>

\* str.lower() on one character of the ASCII range.
LowerChar(c) ==
    IF \E i \in DOMAIN UpperCase : UpperCase[i] = c
    THEN LowerCase[CHOOSE i \in DOMAIN UpperCase : UpperCase[i] = c]
    ELSE c

\* A comparison that takes the name as the caller wrote it.
LowerIdentity(s) == s

\* str.lower()
Lower(s) == [i \in DOMAIN s |-> LowerChar(s[i])]

(* ------------------------------ options ------------------------------- *)

None == <<>>
Some(x) == <<x>>
\* Python truthiness of "str | None": None and "" are falsy.
Truthy(o) == o # None /\ o[1] # EmptyStr

(* --------------------------- BROWSER_MAPPING --------------------------- *)

\* The dict in insertion order; fn is the function object that
\* browser_cookie3.<name> was bound to when the module was imported.
BROWSER_MAPPING ==
    << [key |-> firefox,   fn |-> "bc3.firefox"],
       [key |-> chrome,    fn |-> "bc3.chrome"],
       [key |-> chromium,  fn |-> "bc3.chromium"],
       [key |-> opera,     fn |-> "bc3.opera"],
       [key |-> opera_gx,  fn |-> "bc3.opera_gx"],
       [key |-> brave,     fn |-> "bc3.brave"],
       [key |-> edge,      fn |-> "bc3.edge"],
       [key |-> vivaldi,   fn |-> "bc3.vivaldi"],
       [key |-> safari,    fn |-> "bc3.safari"],
       [key |-> librewolf, fn |-> "bc3.librewolf"] >>

Keys == [i \in DOMAIN BROWSER_MAPPING |-> BROWSER_MAPPING[i].key]

\* "browser_name_lower in BROWSER_MAPPING"
InMapping(k) == \E i \in DOMAIN BROWSER_MAPPING : BROWSER_MAPPING[i].key = k

\* A wrong lookup: whatever the key, the first entry's reader.
LookupFirst(k) == BROWSER_MAPPING[1].fn

\* "BROWSER_MAPPING[browser_name_lower]"
Lookup(k) ==
    BROWSER_MAPPING[CHOOSE i \in DOMAIN BROWSER_MAPPING : BROWSER_MAPPING[i].key = k].fn

(* ------------------------------- inputs -------------------------------- *)

DomainNames == {"", "google.com"}

BrowserNames ==
    {None} \cup
    {Some(s) : s \in {firefox, chrome, chromium, opera, opera_gx, brave, edge,
                      vivaldi, safari, librewolf,
                      Chrome_cap, FIREFOX_up, Opera_GX_mixed,
                      netscape, Netscape_cap, EmptyStr}}

\* The argument triples callers pass: every domain and verbosity with every
\* non-empty browser name; without a browser name (None, or the empty string,
\* which the code treats alike) each domain and each verbosity once.
CallArgs ==
    (DomainNames \X BOOLEAN \X (BrowserNames \ {None, Some(EmptyStr)}))
    \cup {<<"google.com", TRUE, None>>, <<"", FALSE, None>>,
          <<"google.com", TRUE, Some(EmptyStr)>>}

CookieNames == {"__Secure-1PSID", "OTHER_COOKIE"}
CookieValues == {"v1", "v2"}
Cookies == [name : CookieNames, value : CookieValues]

\* How a reader's run ends: normally, or by raising.  "BaseException" is an
\* exception outside the Exception hierarchy (KeyboardInterrupt, SystemExit).
Outcomes == {"ok", "BrowserCookieError", "PermissionError", "Exception", "BaseException"}

CookieSeqs(n) == UNION {[1..k -> Cookies] : k \in 0..n}

(* ------------------------------- state --------------------------------- *)

VARIABLES
    pc,            \* where the current call of load_browser_cookies is
    domain_name,   \* argument
    verbose,       \* argument
    browser_name,  \* argument
    cookies,       \* the local dict
    cookie_fn,     \* the reader selected in specific-browser mode
    idx,           \* position of the all-browsers loop in BROWSER_MAPPING
    calls,         \* reader invocations of this call: [fn, domain_name]
    reads,         \* what each invocation did: [yielded, raised]
    log,           \* logger records of this call
    result,        \* the returned dict, once returned
    propagated,    \* the exception that left the call, if one did
    environ,       \* os.environ: GEMINI_AUTO_LOAD_COOKIES, GEMINI_PREFERRED_BROWSER
    client,        \* the GeminiClient last constructed, if any
    ctor,          \* what that construction was given (arguments, environment)
    loader_calls,  \* the calls of load_browser_cookies that construction made
    bc3,           \* what each attribute browser_cookie3.<name> is bound to now
    earlier        \* what the previous call returned, as its caller kept it

loaderVars == <<pc, domain_name, verbose, browser_name, cookies, cookie_fn, idx,
                calls, reads, log, result, propagated>>

clientVars == <<environ, client, ctor, loader_calls>>

worldVars == <<bc3, earlier>>

vars == <<loaderVars, clientVars, worldVars>>

(* ------------------------------ helpers -------------------------------- *)

\* A dict that outlives the call (a module-level dict, a mutable default):
\* it still holds what the previous call returned.
LeftoverDict == earlier.result

\* "cookies = {}"
EmptyDict == <<>>

\* A dict write that keeps an existing key's value.
PutIfAbsent(m, n, v) ==
    [k \in DOMAIN m \cup {n} |-> IF k \in DOMAIN m THEN m[k] ELSE v]

\* "cookies[cookie.name] = cookie.value"
Put(m, n, v) ==
    [k \in DOMAIN m \cup {n} |-> IF k = n THEN v ELSE m[k]]

\* "for cookie in cookie_fn(...): cookies[cookie.name] = cookie.value",
\* over the cookies the reader yielded before it ended or raised.
RECURSIVE Merge(_, _)
Merge(m, ys) ==
    IF ys = <<>> THEN m
    ELSE Merge(Put(m, Head(ys).name, Head(ys).value), Tail(ys))

\* A try statement that undoes its writes when the reader raises.
StoredAtomically(m, r) ==
    IF r.raised = "ok" THEN Merge(m, r.yielded) ELSE m

\* What the dict holds when the try statement is left: each cookie was
\* written as it was yielded, and no except clause takes a write back.
Stored(m, r) == Merge(m, r.yielded)

\* "cookie_fn(domain_name=domain_name)"
ReaderCall(fn, d) == [fn |-> fn, domain_name |-> d]

\* The except clauses without the generic one.
CaughtNoGeneric(e) == e \in {"BrowserCookieError", "PermissionError"}

\* The except clauses without PermissionError's and the generic one.
CaughtOnlyCookieError(e) == e = "BrowserCookieError"

\* "except bc3.BrowserCookieError / except PermissionError / except Exception"
Caught(e) == e \in {"BrowserCookieError", "PermissionError", "Exception"}

\* What the specific-browser handlers log; the messages are formatted with
\* browser_name as the caller gave it.
SpecificLog(e, name, v) ==
    IF ~v THEN <<>>
    ELSE IF e = "BrowserCookieError"
         THEN << [level |-> "info", event |-> "no_cookies", browser |-> name] >>
    ELSE IF e = "PermissionError"
         THEN << [level |-> "warning", event |-> "permission_denied", browser |-> name] >>
    ELSE IF e = "Exception"
         THEN << [level |-> "error", event |-> "error", browser |-> name] >>
    ELSE <<>>

\* The all-browsers handlers with the generic one silent.
AllModeLogNoError(e, key, v) ==
    IF v /\ e = "PermissionError"
    THEN << [level |-> "warning", event |-> "permission_denied", browser |-> key] >>
    ELSE <<>>

\* What the all-browsers handlers log; BrowserCookieError is passed over.
AllModeLog(e, key, v) ==
    IF ~v THEN <<>>
    ELSE IF e = "PermissionError"
         THEN << [level |-> "warning", event |-> "permission_denied", browser |-> key] >>
    ELSE IF e = "Exception"
         THEN << [level |-> "error", event |-> "error", browser |-> key] >>
    ELSE <<>>

\* The invalid-name warning with the lowercased name.
InvalidNameLogLower(name) ==
    [level |-> "warning", event |-> "invalid_browser_name",
     browser |-> Lower(name), supported |-> Keys]

\* The invalid-name warning: the name as given and the keys of BROWSER_MAPPING.
InvalidNameLog(name) ==
    [level |-> "warning", event |-> "invalid_browser_name",
     browser |-> name, supported |-> Keys]

\* A loop that stops at the first reader that raises.
AfterExceptBreak(i) == Len(BROWSER_MAPPING) + 1

\* The for loop goes on with the next item after an except clause ran.
AfterExcept(i) == i + 1

\* Events the environment has produced in this call.
RECURSIVE Events(_)
Events(rs) ==
    IF rs = <<>> THEN 0
    ELSE Len(Head(rs).yielded) + (IF Head(rs).raised = "ok" THEN 0 ELSE 1)
         + Events(Tail(rs))

\* The runs a reader may make with the events that are left: it yields some
\* cookies and ends, or yields some cookies and raises.
Failures == Outcomes \ {"ok"}

ReaderRuns(rs) ==
    LET left == MaxEvents - earlier.events - Events(rs) IN
    {[yielded |-> ys, raised |-> "ok"] : ys \in CookieSeqs(left)}
    \cup
    (IF left = 0 THEN {}
     ELSE [yielded : CookieSeqs(left - 1), raised : Failures])

(* ------------------------------- actions ------------------------------- *)

Init ==
    /\ pc = "idle"
    /\ domain_name = ""
    /\ verbose = TRUE
    /\ browser_name = None
    /\ cookies = <<>>
    /\ cookie_fn = None
    /\ idx = 1
    /\ calls = <<>>
    /\ reads = <<>>
    /\ log = <<>>
    /\ result = None
    /\ propagated = "none"
    /\ environ = [auto |-> None, pref |-> None]
    /\ client = None
    /\ ctor = None
    /\ loader_calls = <<>>
    /\ bc3 = [i \in DOMAIN BROWSER_MAPPING |-> BROWSER_MAPPING[i].fn]
    /\ earlier = [result |-> <<>>, events |-> 0]

\* A caller enters load_browser_cookies: "cookies = {}".
Call(d, v, b) ==
    /\ pc = "idle"
    /\ pc' = "entered"
    /\ domain_name' = d
    /\ verbose' = v
    /\ browser_name' = b
    /\ cookies' = EmptyDict
    /\ cookie_fn' = None
    /\ idx' = 1
    /\ calls' = <<>>
    /\ reads' = <<>>
    /\ log' = <<>>
    /\ result' = None
    /\ propagated' = "none"
    /\ UNCHANGED clientVars
    /\ UNCHANGED worldVars

\* "if browser_name: ... if browser_name_lower in BROWSER_MAPPING:
\*      cookie_fn = BROWSER_MAPPING[browser_name_lower]"
SelectBrowser ==
    /\ pc = "entered"
    /\ Truthy(browser_name)
    /\ InMapping(Lower(browser_name[1]))
    /\ cookie_fn' = Some(Lookup(Lower(browser_name[1])))
    /\ pc' = "specific"
    /\ UNCHANGED <<domain_name, verbose, browser_name, cookies, idx, calls,
                   reads, log, result, propagated>>
    /\ UNCHANGED clientVars
    /\ UNCHANGED worldVars

\* "else: logger.warning(...); return {}"
InvalidBrowserName ==
    /\ pc = "entered"
    /\ Truthy(browser_name)
    /\ ~InMapping(Lower(browser_name[1]))
    /\ log' = Append(log, InvalidNameLog(browser_name[1]))
    /\ result' = Some(<<>>)
    /\ pc' = "done"
    /\ UNCHANGED <<domain_name, verbose, browser_name, cookies, cookie_fn, idx,
                   calls, reads, propagated>>
    /\ UNCHANGED clientVars
    /\ UNCHANGED worldVars

\* "else: for cookie_fn_name, cookie_fn in BROWSER_MAPPING.items():"
EnterLoop ==
    /\ pc = "entered"
    /\ ~Truthy(browser_name)
    /\ idx' = 1
    /\ pc' = "all"
    /\ UNCHANGED <<domain_name, verbose, browser_name, cookies, cookie_fn,
                   calls, reads, log, result, propagated>>
    /\ UNCHANGED clientVars
    /\ UNCHANGED worldVars

\* The try statement of specific-browser mode: the reader is invoked, the
\* cookies it yields are stored one by one, and an exception it raises is
\* handled by the except clause that matches, or leaves the call.
TrySpecific ==
    /\ pc = "specific"
    /\ \E r \in ReaderRuns(reads) :
        /\ calls' = Append(calls, ReaderCall(cookie_fn[1], domain_name))
        /\ reads' = Append(reads, r)
        /\ cookies' = Stored(cookies, r)
        /\ IF r.raised = "ok" \/ Caught(r.raised)
           THEN /\ log' = log \o SpecificLog(r.raised, browser_name[1], verbose)
                /\ pc' = "return"
                /\ propagated' = propagated
           ELSE /\ log' = log
                /\ pc' = "raised"
                /\ propagated' = r.raised
    /\ UNCHANGED <<domain_name, verbose, browser_name, cookie_fn, idx, result>>
    /\ UNCHANGED clientVars
    /\ UNCHANGED worldVars

\* One iteration of the all-browsers loop: the same try statement for the
\* reader at position idx.
TryNextBrowser ==
    /\ pc = "all"
    /\ idx <= Len(BROWSER_MAPPING)
    /\ \E r \in ReaderRuns(reads) :
        /\ calls' = Append(calls, ReaderCall(BROWSER_MAPPING[idx].fn, domain_name))
        /\ reads' = Append(reads, r)
        /\ cookies' = Stored(cookies, r)
        /\ IF r.raised = "ok"
           THEN /\ log' = log
                /\ idx' = idx + 1
                /\ pc' = "all"
                /\ propagated' = propagated
           ELSE IF Caught(r.raised)
           THEN /\ log' = log \o AllModeLog(r.raised, BROWSER_MAPPING[idx].key, verbose)
                /\ idx' = AfterExcept(idx)
                /\ pc' = "all"
                /\ propagated' = propagated
           ELSE /\ log' = log
                /\ idx' = idx
                /\ pc' = "raised"
                /\ propagated' = r.raised
    /\ UNCHANGED <<domain_name, verbose, browser_name, cookie_fn, result>>
    /\ UNCHANGED clientVars
    /\ UNCHANGED worldVars

\* "return cookies"
Return ==
    /\ \/ pc = "return"
       \/ pc = "all" /\ idx > Len(BROWSER_MAPPING)
    /\ result' = Some(cookies)
    /\ pc' = "done"
    /\ UNCHANGED <<domain_name, verbose, browser_name, cookies, cookie_fn, idx,
                   calls, reads, log, propagated>>
    /\ UNCHANGED clientVars
    /\ UNCHANGED worldVars

\* The caller has taken the returned dict, or the exception: nothing of the
\* call is left (the function keeps no module-level state but BROWSER_MAPPING).
Finish ==
    /\ pc \in {"done", "raised"}
    /\ pc' = "idle"
    /\ domain_name' = ""
    /\ verbose' = TRUE
    /\ browser_name' = None
    /\ cookies' = <<>>
    /\ cookie_fn' = None
    /\ idx' = 1
    /\ calls' = <<>>
    /\ reads' = <<>>
    /\ log' = <<>>
    /\ result' = None
    /\ propagated' = "none"
    /\ UNCHANGED clientVars
    /\ UNCHANGED worldVars

Next ==
    \/ \E a \in CallArgs : Call(a[1], a[2], a[3])
    \/ SelectBrowser
    \/ InvalidBrowserName
    \/ EnterLoop
    \/ TrySpecific
    \/ TryNextBrowser
    \/ Return
    \/ Finish

Spec == Init /\ [][Next]_vars

(* ------------------- replacing browser_cookie3's readers ---------------- *)
(* The tests replace attributes of the browser_cookie3 module              *)
(* (patch('browser_cookie3.chrome')) after load_browser_cookies' module    *)
(* was imported.  BROWSER_MAPPING was built at import and is not rebuilt.  *)

\* The stand-ins the attributes are replaced with.
MockNames ==
    <<"mock.firefox", "mock.chrome", "mock.chromium", "mock.opera", "mock.opera_gx",
      "mock.brave", "mock.edge", "mock.vivaldi", "mock.safari", "mock.librewolf">>

\* The attributes that get replaced: browser_cookie3.firefox and .chrome.
Patchable == {i \in DOMAIN BROWSER_MAPPING : BROWSER_MAPPING[i].key \in {firefox, chrome}}

\* The calls made while attributes may be replaced.
PatchArgs ==
    {<<"google.com", TRUE, None>>, <<"google.com", TRUE, Some(chrome)>>,
     <<"google.com", FALSE, Some(firefox)>>, <<"", TRUE, Some(Chrome_cap)>>,
     <<"", FALSE, Some(edge)>>, <<"google.com", TRUE, Some(netscape)>>}

\* patch('browser_cookie3.<name>'), between two calls.
Patch(i) ==
    /\ pc = "idle"
    /\ bc3[i] # MockNames[i]
    /\ bc3' = [bc3 EXCEPT ![i] = MockNames[i]]
    /\ UNCHANGED earlier
    /\ UNCHANGED loaderVars
    /\ UNCHANGED clientVars

\* The patches end: every attribute is what it was at import.
Unpatch ==
    /\ pc = "idle"
    /\ \E i \in DOMAIN bc3 : bc3[i] = MockNames[i]
    /\ bc3' = [i \in DOMAIN BROWSER_MAPPING |-> BROWSER_MAPPING[i].fn]
    /\ UNCHANGED earlier
    /\ UNCHANGED loaderVars
    /\ UNCHANGED clientVars

PatchNext ==
    \/ \E a \in PatchArgs : Call(a[1], a[2], a[3])
    \/ SelectBrowser
    \/ InvalidBrowserName
    \/ EnterLoop
    \/ TrySpecific
    \/ TryNextBrowser
    \/ Return
    \/ Finish
    \/ \E i \in Patchable : Patch(i)
    \/ Unpatch

PatchSpec == Init /\ [][PatchNext]_vars

(* --------------------------- calls in sequence -------------------------- *)
(* A caller that keeps what a call returned while it makes the next one.   *)

\* The calls made one after another.
SeqArgs ==
    {<<"google.com", TRUE, None>>, <<"google.com", TRUE, Some(chrome)>>,
     <<"", FALSE, Some(FIREFOX_up)>>, <<"google.com", TRUE, Some(netscape)>>}

\* The call is over and its caller keeps the dict it returned (nothing, if
\* an exception left the call); the function's locals are gone.
KeepResult ==
    /\ pc \in {"done", "raised"}
    /\ earlier' = [result |-> IF pc = "done" THEN result[1] ELSE <<>>,
                   events |-> Events(reads)]
    /\ pc' = "idle"
    /\ domain_name' = ""
    /\ verbose' = TRUE
    /\ browser_name' = None
    /\ cookies' = <<>>
    /\ cookie_fn' = None
    /\ idx' = 1
    /\ calls' = <<>>
    /\ reads' = <<>>
    /\ log' = <<>>
    /\ result' = None
    /\ propagated' = "none"
    /\ UNCHANGED bc3
    /\ UNCHANGED clientVars

SeqNext ==
    \/ \E a \in SeqArgs : Call(a[1], a[2], a[3])
    \/ SelectBrowser
    \/ InvalidBrowserName
    \/ EnterLoop
    \/ TrySpecific
    \/ TryNextBrowser
    \/ Return
    \/ KeepResult

SeqSpec == Init /\ [][SeqNext]_vars

(* ----------------------------- GeminiClient ---------------------------- *)
(* The constructor as its tests describe it.  load_browser_cookies is the  *)
(* tests' stand-in: it returns some mapping or raises ImportError.         *)

PSID == "__Secure-1PSID"
PSIDTS == "__Secure-1PSIDTS"

\* GEMINI_AUTO_LOAD_COOKIES and GEMINI_PREFERRED_BROWSER: unset, or a string.
EnvAutoValues ==
    {None} \cup {Some(x) : x \in {s_true, s_True, s_TRUE, s_false, s_not_a_boolean, s_1}}
EnvPrefValues == {None, Some(edge), Some(chrome)}

\* Constructor arguments: the explicit cookies (both or neither),
\* auto_load_cookies and preferred_browser (None: not given).
SecureArgs == {None, Some([secure_1psid |-> "explicit_psid", secure_1psidts |-> "explicit_psidts"])}
AutoArgs == {None, Some(TRUE), Some(FALSE)}
PrefArgs == {None, Some(firefox), Some(vivaldi)}

\* What the stand-in loader does when called.
LoaderOutcomes ==
    {[raised |-> "none", value |-> [n \in S |-> "browser_value"]] :
        S \in SUBSET {PSID, PSIDTS, "OTHER_COOKIE"}}
    \cup {[raised |-> "ImportError", value |-> <<>>]}

\* Any non-empty string counts as true.
EnvFlagTruthy(x) == x # EmptyStr

\* An environment string as a boolean: true only if its lowercase is "true".
EnvFlag(x) == Lower(x) = s_true

\* auto_load_cookies: the argument, else the environment, else True.
ResolveAutoLoad(arg, env) ==
    IF arg # None THEN arg[1]
    ELSE IF env # None THEN EnvFlag(env[1])
    ELSE TRUE

\* preferred_browser: the argument, else the environment, else None.
ResolvePreferred(arg, env) ==
    IF arg # None THEN arg ELSE env

\* The loader is consulted whatever cookies were given.
ShouldLoadIgnoringExplicit(auto, secure) == auto

\* The loader is consulted when auto-loading is on and no explicit cookies
\* were given.
ShouldLoad(auto, secure) == auto /\ secure = None

\* The cookies the client keeps from what the loader returned: none unless
\* "__Secure-1PSID" is among them.
CookiesFrom(m) ==
    IF PSID \in DOMAIN m
    THEN [n \in DOMAIN m \cap {PSID, PSIDTS} |-> m[n]]
    ELSE <<>>

ExplicitCookies(sec) ==
    [n \in {PSID, PSIDTS} |-> IF n = PSID THEN sec.secure_1psid ELSE sec.secure_1psidts]

\* patch.dict(os.environ, ...) before a client is constructed.
SetEnviron(a, p) ==
    /\ client = None
    /\ environ' = [auto |-> a, pref |-> p]
    /\ UNCHANGED <<client, ctor, loader_calls>>
    /\ UNCHANGED loaderVars
    /\ UNCHANGED worldVars

\* GeminiClient(secure_1psid, secure_1psidts, auto_load_cookies=auto,
\* preferred_browser=pref) with explicit cookies, or with auto-loading off:
\* the loader is not consulted.
ConstructWithoutLoading(sec, auto, pref) ==
    /\ client = None
    /\ ~ShouldLoad(ResolveAutoLoad(auto, environ.auto), sec)
    /\ client' = Some([auto_load_cookies |-> ResolveAutoLoad(auto, environ.auto),
                       preferred_browser |-> ResolvePreferred(pref, environ.pref),
                       cookies |-> IF sec # None THEN ExplicitCookies(sec[1]) ELSE <<>>])
    /\ ctor' = Some([secure |-> sec, auto |-> auto, pref |-> pref, loader |-> None])
    /\ loader_calls' = <<>>
    /\ UNCHANGED environ
    /\ UNCHANGED loaderVars
    /\ UNCHANGED worldVars

\* The same constructor when it consults the loader, which returns a mapping
\* or raises ImportError.
ConstructLoading(sec, auto, pref, out) ==
    /\ client = None
    /\ ShouldLoad(ResolveAutoLoad(auto, environ.auto), sec)
    /\ loader_calls' = << [domain_name |-> "google.com",
                           browser_name |-> ResolvePreferred(pref, environ.pref),
                           verbose |-> TRUE] >>
    /\ client' = Some([auto_load_cookies |-> ResolveAutoLoad(auto, environ.auto),
                       preferred_browser |-> ResolvePreferred(pref, environ.pref),
                       cookies |-> IF out.raised = "ImportError" THEN <<>>
                                   ELSE CookiesFrom(out.value)])
    /\ ctor' = Some([secure |-> sec, auto |-> auto, pref |-> pref, loader |-> Some(out)])
    /\ UNCHANGED environ
    /\ UNCHANGED loaderVars
    /\ UNCHANGED worldVars

\* The client is dropped (the end of a test).
Discard ==
    /\ client # None
    /\ client' = None
    /\ ctor' = None
    /\ loader_calls' = <<>>
    /\ UNCHANGED environ
    /\ UNCHANGED loaderVars
    /\ UNCHANGED worldVars

ClientNext ==
    \/ \E a \in EnvAutoValues, p \in EnvPrefValues : SetEnviron(a, p)
    \/ \E sec \in SecureArgs, auto \in AutoArgs, pref \in PrefArgs :
          ConstructWithoutLoading(sec, auto, pref)
    \/ \E sec \in SecureArgs, auto \in AutoArgs, pref \in PrefArgs, out \in LoaderOutcomes :
          ConstructLoading(sec, auto, pref, out)
    \/ Discard

ClientSpec == Init /\ [][ClientNext]_vars

(* ------------------------- reading the history ------------------------- *)

\* BROWSER_MAPPING as the source lists it: the keys, and the readers.
SupportedNames ==
    <<firefox, chrome, chromium, opera, opera_gx, brave, edge, vivaldi,
      safari, librewolf>>

ReaderNames ==
    <<"bc3.firefox", "bc3.chrome", "bc3.chromium", "bc3.opera", "bc3.opera_gx",
      "bc3.brave", "bc3.edge", "bc3.vivaldi", "bc3.safari", "bc3.librewolf">>

FailureKinds == {"BrowserCookieError", "PermissionError", "Exception"}

\* The cookies the reader fn yielded during this call, in the order yielded,
\* over the first j invocations.
RECURSIVE YieldedBy(_, _)
YieldedBy(fn, j) ==
    IF j = 0 THEN <<>>
    ELSE YieldedBy(fn, j - 1)
         \o (IF calls[j].fn = fn THEN reads[j].yielded ELSE <<>>)

\* Everything the readers yielded during this call, the readers taken in
\* BROWSER_MAPPING order (the first i of them) and each reader's cookies in
\* the order it yielded them.
RECURSIVE YieldedInMappingOrder(_)
YieldedInMappingOrder(i) ==
    IF i = 0 THEN <<>>
    ELSE YieldedInMappingOrder(i - 1)
         \o YieldedBy(ReaderNames[i], Len(calls))

\* The name-to-value mapping of a sequence of cookies, a later cookie
\* replacing an earlier one of the same name.
MappingOf(ys) ==
    [n \in {ys[j].name : j \in DOMAIN ys} |->
        ys[CHOOSE j \in DOMAIN ys :
              ys[j].name = n /\ \A k \in DOMAIN ys : ys[k].name = n => k <= j].value]

IsSupported(s) == \E i \in DOMAIN SupportedNames : SupportedNames[i] = Lower(s)

\* The reader a supported name stands for.
ReaderOf(s) ==
    ReaderNames[CHOOSE i \in DOMAIN SupportedNames : SupportedNames[i] = Lower(s)]

SpecificMode == Truthy(browser_name) /\ IsSupported(browser_name[1])

InvalidMode == Truthy(browser_name) /\ ~IsSupported(browser_name[1])

(* -------------------------------- claims ------------------------------- *)

\* C1: in all-browsers mode (browser_name None) the returned mapping is the
\* last-write-wins merge of the cookies the readers yielded, the readers
\* taken in BROWSER_MAPPING order: every name some reader yielded maps to
\* the value from the latest reader (and its last cookie) that yielded it,
\* and no other key is present.
C1_LastWriteWinsMerge ==
    (pc = "done" /\ browser_name = None) =>
        result = Some(MappingOf(YieldedInMappingOrder(Len(ReaderNames))))

\* Two readers yielded the same name with different values and the call
\* returned.
C1_Witness ==
    /\ pc = "done"
    /\ browser_name = None
    /\ \E i, j \in DOMAIN reads :
        /\ i < j
        /\ Len(reads[i].yielded) = 1
        /\ Len(reads[j].yielded) = 1
        /\ reads[i].yielded[1].name = reads[j].yielded[1].name
        /\ reads[i].yielded[1].value # reads[j].yielded[1].value
        /\ result[1][reads[j].yielded[1].name] = reads[j].yielded[1].value

\* C2: in all-browsers mode the ten readers are invoked once each, in
\* BROWSER_MAPPING order, each with the caller's domain_name; a reader that
\* raised BrowserCookieError, PermissionError or another Exception does not
\* stop the ones after it, so a call that returns has invoked all ten.
C2_AllReadersTriedInOrder ==
    (browser_name = None /\ pc \in {"all", "done", "raised"}) =>
        /\ Len(calls) <= Len(ReaderNames)
        /\ calls = [i \in 1..Len(calls) |->
                       [fn |-> ReaderNames[i], domain_name |-> domain_name]]
        /\ pc = "all" => Len(calls) = idx - 1
        /\ pc = "done" => Len(calls) = Len(ReaderNames)
        /\ (\A j \in DOMAIN reads : reads[j].raised \in FailureKinds \cup {"ok"})
              => pc # "raised"

\* The call returned although two readers before the last had raised.
C2_Witness ==
    /\ pc = "done"
    /\ browser_name = None
    /\ domain_name = "google.com"
    /\ Len(calls) = 10
    /\ \E i, j \in 1..9 :
        /\ i < j
        /\ reads[i].raised = "PermissionError"
        /\ reads[j].raised = "BrowserCookieError"

\* C3: an exception a reader raises, BrowserCookieError, PermissionError or
\* any other Exception, never leaves load_browser_cookies, in either mode:
\* only an exception outside the Exception hierarchy leaves the call, and a
\* call that ended otherwise has returned a mapping.
C3_ReaderExceptionsSuppressed ==
    /\ pc = "raised" =>
          /\ propagated \notin FailureKinds
          /\ propagated = reads[Len(reads)].raised
    /\ pc # "raised" => propagated = "none"
    /\ (reads # <<>> /\ reads[Len(reads)].raised \in FailureKinds) =>
          pc \in {"return", "all", "done"}
    /\ pc = "done" =>
          /\ result # None
          /\ DOMAIN result[1] \subseteq CookieNames

\* A specific-browser call returned after its reader raised a generic
\* Exception.
C3_Witness ==
    /\ pc = "done"
    /\ SpecificMode
    /\ reads[1].raised = "Exception"
    /\ result # None

\* C4: a non-empty browser_name whose lowercase form is no key of
\* BROWSER_MAPPING makes the call return the empty mapping, invoke no
\* reader and log exactly one warning, naming the name as given and the
\* supported names, whatever verbose is.
C4_InvalidBrowserName ==
    InvalidMode =>
        /\ pc \in {"entered", "done"}
        /\ calls = <<>>
        /\ pc = "done" =>
              /\ result = Some(<<>>)
              /\ log = << [level |-> "warning", event |-> "invalid_browser_name",
                           browser |-> browser_name[1],
                           supported |-> SupportedNames] >>

\* The call returned for a capitalised invalid name with verbose off.
C4_Witness ==
    /\ pc = "done"
    /\ browser_name = Some(Netscape_cap)
    /\ ~verbose
    /\ Len(log) = 1

\* C5: in specific-browser mode only the named reader is invoked, once and
\* with the caller's domain_name, and the returned mapping is the
\* name-to-value mapping of the cookies that reader yielded.
C5_SpecificBrowserOnly ==
    SpecificMode =>
        /\ pc \in {"entered", "specific", "return", "done", "raised"}
        /\ pc \in {"entered", "specific"} => calls = <<>>
        /\ pc \in {"return", "done", "raised"} =>
              calls = << [fn |-> ReaderOf(browser_name[1]),
                          domain_name |-> domain_name] >>
        /\ pc = "done" => result = Some(MappingOf(reads[1].yielded))

\* edge was asked for, yielded two different names, and the call returned.
C5_Witness ==
    /\ pc = "done"
    /\ browser_name = Some(edge)
    /\ domain_name = "google.com"
    /\ calls[1].fn = "bc3.edge"
    /\ Len(reads[1].yielded) = 2
    /\ Cardinality(DOMAIN result[1]) = 2

\* C6 as stated: in specific-browser mode, when the named reader raises
\* BrowserCookieError or PermissionError the returned mapping is empty.
C6_EmptyWhenReaderRaises ==
    (SpecificMode /\ pc = "done"
        /\ reads[1].raised \in {"BrowserCookieError", "PermissionError"})
    => result = Some(<<>>)

\* C6 amended: in specific-browser mode, when the named reader raises
\* BrowserCookieError or PermissionError the call returns the mapping of
\* the cookies the reader yielded before it raised: the empty mapping when
\* it raised before yielding any.
C6_ReturnsWhatWasYieldedBeforeRaise ==
    (SpecificMode /\ reads # <<>>
        /\ reads[1].raised \in {"BrowserCookieError", "PermissionError"})
    => /\ pc \in {"return", "done"}
       /\ cookies = MappingOf(reads[1].yielded)
       /\ reads[1].yielded = <<>> => cookies = <<>>
       /\ pc = "done" => result = Some(cookies)

\* chrome raised PermissionError at once and the call returned nothing.
C6_Witness ==
    /\ pc = "done"
    /\ browser_name = Some(chrome)
    /\ reads[1].raised = "PermissionError"
    /\ reads[1].yielded = <<>>
    /\ result = Some(<<>>)

\* C7: in specific-browser mode with verbose true, when the named reader
\* raises PermissionError the warning names the browser by its
\* BROWSER_MAPPING key, the lowercased name, whatever case the caller used.
C7_WarningNamesMappingKey ==
    (SpecificMode /\ verbose /\ pc \in {"return", "done"}
        /\ reads[1].raised = "PermissionError")
    => log = << [level |-> "warning", event |-> "permission_denied",
                 browser |-> Lower(browser_name[1])] >>

\* C8: constructing a GeminiClient calls load_browser_cookies if and only
\* if its effective auto_load_cookies is true and no explicit cookies were
\* given; the call is made once, with domain_name "google.com", browser_name
\* the effective preferred_browser (None when unset) and verbose True; and
\* when the loader returns no "__Secure-1PSID" or raises ImportError the
\* client is still constructed, with no cookies.
C8_LoaderCalledWhenNeeded ==
    client # None =>
        /\ Len(loader_calls) <= 1
        /\ Len(loader_calls) = 1 <=>
              (client[1].auto_load_cookies /\ ctor[1].secure = None)
        /\ Len(loader_calls) = 1 =>
              /\ loader_calls[1] = [domain_name |-> "google.com",
                                    browser_name |-> client[1].preferred_browser,
                                    verbose |-> TRUE]
              /\ ctor[1].loader # None
              /\ (\/ ctor[1].loader[1].raised = "ImportError"
                  \/ PSID \notin DOMAIN ctor[1].loader[1].value)
                 => client[1].cookies = <<>>

\* A client was constructed for firefox although the loader returned only a
\* cookie that is not "__Secure-1PSID".
C8_Witness ==
    /\ client # None
    /\ Len(loader_calls) = 1
    /\ loader_calls[1].browser_name = Some(firefox)
    /\ ctor[1].loader[1].raised = "none"
    /\ DOMAIN ctor[1].loader[1].value = {"OTHER_COOKIE"}
    /\ client[1].cookies = <<>>

\* C9: auto_load_cookies and preferred_browser are each the constructor
\* argument if given, else the environment variable if set, else the default
\* (True, None); GEMINI_AUTO_LOAD_COOKIES is true only when its lowercase
\* form is "true", and false for any other value.
C9_ConfigPrecedence ==
    client # None =>
        /\ client[1].auto_load_cookies =
              (IF ctor[1].auto # None THEN ctor[1].auto[1]
               ELSE IF environ.auto # None
                    THEN environ.auto[1] \in {s_true, s_True, s_TRUE}
               ELSE TRUE)
        /\ client[1].preferred_browser =
              (IF ctor[1].pref # None THEN ctor[1].pref
               ELSE IF environ.pref # None THEN environ.pref
               ELSE None)

\* A client constructed without arguments under GEMINI_AUTO_LOAD_COOKIES =
\* "not_a_boolean" and GEMINI_PREFERRED_BROWSER = "edge".
C9_Witness ==
    /\ client # None
    /\ ctor[1].auto = None
    /\ ctor[1].pref = None
    /\ environ = [auto |-> Some(s_not_a_boolean), pref |-> Some(edge)]
    /\ ~client[1].auto_load_cookies
    /\ client[1].preferred_browser = Some(edge)
    /\ loader_calls = <<>>

\* C10 as stated: in all-browsers mode with verbose true every reader that
\* failed has a log record for its browser.
C10_EveryFailureLogged ==
    (browser_name = None /\ verbose /\ pc \in {"all", "done"}) =>
        \A j \in DOMAIN reads :
            reads[j].raised \in FailureKinds =>
                \E k \in DOMAIN log : log[k].browser = SupportedNames[j]

\* The records the all-browsers loop owes for its first j readers.
RECURSIVE OwedLog(_)
OwedLog(j) ==
    IF j = 0 THEN <<>>
    ELSE OwedLog(j - 1)
         \o (IF reads[j].raised = "PermissionError"
             THEN << [level |-> "warning", event |-> "permission_denied",
                      browser |-> SupportedNames[j]] >>
             ELSE IF reads[j].raised = "Exception"
             THEN << [level |-> "error", event |-> "error",
                      browser |-> SupportedNames[j]] >>
             ELSE <<>>)

\* C10 amended: in all-browsers mode with verbose true every reader that
\* fails with PermissionError or with another Exception produces one log
\* record for that browser (a warning, an error), a reader that fails with
\* BrowserCookieError produces none, and in each case loading continues
\* with the next browser.
C10_FailuresLoggedExceptCookieError ==
    (browser_name = None /\ verbose /\ pc \in {"all", "done"}) =>
        /\ log = OwedLog(Len(reads))
        /\ pc = "all" => idx = Len(reads) + 1
        /\ pc = "done" => Len(reads) = Len(SupportedNames)

\* A verbose all-browsers call returned after one reader raised
\* BrowserCookieError and a later one a generic Exception.
C10_Witness ==
    /\ pc = "done"
    /\ browser_name = None
    /\ verbose
    /\ \E i, j \in 1..9 :
        /\ i < j
        /\ reads[i].raised = "BrowserCookieError"
        /\ reads[j].raised = "Exception"
    /\ Len(log) = 1
    /\ log[1].level = "error"

\* C11: the reader invoked for a browser is what browser_cookie3.<browser> is
\* bound to when load_browser_cookies is called: once the attribute has been
\* replaced, a call invokes the replacement, once and with the caller's
\* domain_name, and not the reader the attribute was bound to at import.
C11_ReaderIsCurrentAttribute ==
    /\ (SpecificMode /\ pc \in {"return", "done"}) =>
          calls = << [fn |-> bc3[CHOOSE i \in DOMAIN SupportedNames :
                                    SupportedNames[i] = Lower(browser_name[1])],
                      domain_name |-> domain_name] >>
    /\ (browser_name = None /\ pc \in {"all", "done"}) =>
          \A j \in DOMAIN calls :
              calls[j] = [fn |-> bc3[j], domain_name |-> domain_name]

\* Everything yielded during this call, in the order yielded, over the first
\* j reader invocations.
RECURSIVE AllYielded(_)
AllYielded(j) ==
    IF j = 0 THEN <<>> ELSE AllYielded(j - 1) \o reads[j].yielded

\* C12: load_browser_cookies keeps nothing between invocations: every call
\* starts from an empty mapping, and whatever calls came before and whatever
\* they returned, the dict a call holds and returns is the mapping of what
\* the readers yielded during that call alone.
C12_NothingKeptBetweenCalls ==
    /\ pc = "entered" => cookies = <<>>
    /\ pc \in {"entered", "specific", "all", "return", "done", "raised"} =>
          cookies = MappingOf(AllYielded(Len(reads)))
    /\ pc = "done" =>
          result = Some(IF InvalidMode THEN <<>>
                        ELSE MappingOf(AllYielded(Len(reads))))

\* An all-browsers call returned without a cookie that the call before it
\* had returned.
C12_Witness ==
    /\ pc = "done"
    /\ browser_name = None
    /\ Len(reads) = Len(ReaderNames)
    /\ earlier.result # <<>>
    /\ \E n \in DOMAIN earlier.result : n \notin DOMAIN result[1]

\* The cookie at position k of the j-th reader's run is the last one of its
\* name yielded so far in this call.
LastOfItsName(j, k) ==
    /\ \A k2 \in DOMAIN reads[j].yielded :
          k2 > k => reads[j].yielded[k2].name # reads[j].yielded[k].name
    /\ \A j2 \in DOMAIN reads : \A k2 \in DOMAIN reads[j2].yielded :
          j2 > j => reads[j2].yielded[k2].name # reads[j].yielded[k].name

SameLetter(a, b) ==
    \/ a = b
    \/ \E i \in DOMAIN LowerCase : b = LowerCase[i] /\ a = UpperCase[i]

\* The name s is the key k written in some mix of upper and lower case.
CaseVariantOf(s, k) ==
    /\ Len(s) = Len(k)
    /\ \A i \in DOMAIN k : SameLetter(s[i], k[i])

\* C14: browser selection is case-insensitive: whenever browser_name is a
\* supported name in any letter case ("Chrome", "FIREFOX", "Opera_GX"), the
\* call never logs the invalid-browser-name warning and never returns
\* without a reader call; it invokes the reader of the lowercase name, once
\* and with the caller's domain_name, and returns the mapping of what that
\* reader yielded, as the call with the lowercase name does.
C14_CaseInsensitiveSelection ==
    \A i \in DOMAIN SupportedNames :
        (/\ browser_name # None
         /\ CaseVariantOf(browser_name[1], SupportedNames[i])) =>
            /\ pc \in {"entered", "specific", "return", "done", "raised"}
            /\ \A l \in DOMAIN log : log[l].event # "invalid_browser_name"
            /\ pc \in {"return", "done", "raised"} =>
                  /\ Len(calls) = 1
                  /\ calls[1].fn = ReaderNames[i]
                  /\ calls[1].domain_name = domain_name
            /\ pc = "done" => result = Some(MappingOf(reads[1].yielded))

\* A call with browser_name "FIREFOX" returned the cookies the firefox
\* reader yielded.
C14_Witness ==
    /\ pc = "done"
    /\ browser_name = Some(FIREFOX_up)
    /\ calls[1].fn = "bc3.firefox"
    /\ reads[1].raised = "ok"
    /\ result[1] # <<>>

====
